---- MODULE Spec2Model ----
(***************************************************************************)
(* Model of popv/algorithms/_scanorama.py: the SCANORAMA adapter           *)
(* (__init__, compute_integration, predict, compute_embedding) acting on   *)
(* one shared AnnData container.                                           *)
(*                                                                         *)
(* The container is the record adata = [obs_names, X, obs, obsm, uns,      *)
(* obsp].  obs maps a column name to a column [dtype, categories, values]; *)
(* obsm maps a representation name to [ncols, rows]; uns maps a key to a   *)
(* value.  Python dictionaries live in heap (object id -> dictionary), so  *)
(* that sharing between a caller's dictionary, the constructor's default   *)
(* argument objects and an adapter's own dictionaries is visible.          *)
(*                                                                         *)
(* The delegated libraries (scanorama, the nearest-neighbour classifier,   *)
(* umap) are not part of the repository.  They are modelled by small       *)
(* deterministic stand-ins over one-dimensional integer features: what     *)
(* matters to the adapter is which rows they are given, in which order,    *)
(* with which keyword arguments, and where their output is written.        *)
(***************************************************************************)
EXTENDS Integers, Sequences, FiniteSets, TLC

VARIABLES adata, settings, heap, adapters, last

vars == <<adata, settings, heap, adapters, last>>

(***************************************************************************)
(* Bounds                                                                  *)
(***************************************************************************)
NumObs == 3

MaxAdapters == 2

(***************************************************************************)
(* Generic helpers                                                         *)
(***************************************************************************)
EmptyMap == [x \in {} |-> 0]

Put(f, k, v) == [x \in (DOMAIN f) \cup {k} |-> IF x = k THEN v ELSE f[x]]

Range(s) == {s[i] : i \in DOMAIN s}

Abs(n) == IF n < 0 THEN -n ELSE n

RECURSIVE SetMin(_)
SetMin(S) ==
    LET x == CHOOSE y \in S : TRUE
    IN  IF S = {x} THEN x
        ELSE LET m == SetMin(S \ {x}) IN IF x < m THEN x ELSE m

RECURSIVE SetMax(_)
SetMax(S) ==
    LET x == CHOOSE y \in S : TRUE
    IN  IF S = {x} THEN x
        ELSE LET m == SetMax(S \ {x}) IN IF x > m THEN x ELSE m

RECURSIVE Fact(_)
Fact(n) == IF n <= 1 THEN 1 ELSE n * Fact(n - 1)

RECURSIVE Flatten(_)
Flatten(ss) == IF ss = <<>> THEN <<>> ELSE Head(ss) \o Flatten(Tail(ss))

RECURSIVE SumSeq(_)
SumSeq(s) == IF s = <<>> THEN 0 ELSE Head(s) + SumSeq(Tail(s))

\* the row positions 1..n, in increasing order
RowPositions(n) == [i \in 1..n |-> i]

\* first position of x in s (x occurs in s)
IndexOf(s, x) == SetMin({i \in DOMAIN s : s[i] = x})

(***************************************************************************)
(* Constructor defaults                                                    *)
(***************************************************************************)
DefaultBatchKey == "_batch_annotation"

DefaultLabelsKey == "_labels_annotation"

DefaultResultKey == "popv_knn_on_scanorama_prediction"

DefaultEmbeddingKey == "X_umap_scanorma_popv"

DefaultDimred == 50

DefaultNNeighbors == 15

MethodDefaults == [dimred |-> DefaultDimred]

ClassifierDefaults == [weights |-> "uniform", n_neighbors |-> DefaultNNeighbors]

EmbeddingDefaults == [min_dist |-> "0.1"]

\* the three `{}` objects created once, when the def statement is executed,
\* and shared by every call that omits the argument
DefaultArgs ==
    [method_dict |-> "dflt_method", classifier_dict |-> "dflt_classifier",
     embedding_dict |-> "dflt_embedding"]

(***************************************************************************)
(* dict.update(other): other's entries win, key by key                     *)
(***************************************************************************)
DictUpdateReversed(base, other) ==
    [k \in (DOMAIN base) \cup (DOMAIN other) |->
        IF k \in DOMAIN base THEN base[k] ELSE other[k]]

DictUpdate(base, other) ==
    [k \in (DOMAIN base) \cup (DOMAIN other) |->
        IF k \in DOMAIN other THEN other[k] ELSE base[k]]

(***************************************************************************)
(* SCANORAMA.__init__.  args = [batch_key, labels_key, result_key,         *)
(* embedding_key, method_dict, classifier_dict, embedding_dict], the last  *)
(* three being ids of dictionaries on the heap.  n is the index of the     *)
(* adapter under construction: it names the three dictionaries the         *)
(* constructor allocates.  `args` and `given` remember the call and the    *)
(* contents of the override dictionaries at the time of the call (history, *)
(* not program state).                                                     *)
(***************************************************************************)
OwnId(n, field) == "adapter" \o ToString(n) \o "." \o field

NewAdapter(h, n, args) ==
    [batch_key |-> args.batch_key,
     labels_key |-> args.labels_key,
     result_key |-> args.result_key,
     embedding_key |-> args.embedding_key,
     method_dict |-> OwnId(n, "method_dict"),
     classifier_dict |-> OwnId(n, "classifier_dict"),
     embedding_dict |-> OwnId(n, "embedding_dict"),
     args |-> args,
     given |-> [method_dict |-> h[args.method_dict],
                classifier_dict |-> h[args.classifier_dict],
                embedding_dict |-> h[args.embedding_dict]]]

HeapAfterInit(h, n, args) ==
    LET h1 == Put(h, OwnId(n, "method_dict"),
                  DictUpdate(MethodDefaults, h[args.method_dict]))
        h2 == Put(h1, OwnId(n, "classifier_dict"),
                  DictUpdate(ClassifierDefaults, h1[args.classifier_dict]))
    IN  Put(h2, OwnId(n, "embedding_dict"),
            DictUpdate(EmbeddingDefaults, h2[args.embedding_dict]))

(***************************************************************************)
(* The container                                                           *)
(***************************************************************************)
Obs == 1..NumObs

CellName(i) == "c" \o ToString(i)

\* batch values in np.unique order (sorted)
BatchOrder == <<"a", "b">>

LabelCategories == <<"B", "T">>

CategoryColumn(cats, vals) == [dtype |-> "category", categories |-> cats, values |-> vals]

BoolColumn(vals) == [dtype |-> "bool", categories |-> <<>>, values |-> vals]

ObjectColumn(vals) == [dtype |-> "object", categories |-> <<>>, values |-> vals]

FloatColumn(vals) == [dtype |-> "float", categories |-> <<>>, values |-> vals]

\* Series.cat.codes: 0-based position of each value in the categories
CatCodes(col) == [i \in DOMAIN col.values |-> IndexOf(col.categories, col.values[i]) - 1]

\* Index.__getitem__ with an integer array (0-based codes)
TakeCategories(cats, codes) == [i \in DOMAIN codes |-> cats[codes[i] + 1]]

(***************************************************************************)
(* compute_integration                                                     *)
(***************************************************************************)
\* np.unique(adata.obs[batch_key]): the sorted distinct batch values
UniqueBatches(col) == SelectSeq(BatchOrder, LAMBDA b : b \in Range(col.values))

\* adata[adata.obs[batch_key] == b]: the rows of batch b, in container order
BatchRows(col, b) ==
    SelectSeq(RowPositions(Len(col.values)), LAMBDA i : col.values[i] = b)

\* _adatas: one group of row positions per batch
Partition(col) ==
    LET u == UniqueBatches(col) IN [g \in DOMAIN u |-> BatchRows(col, u[g])]

\* stand-in for scanorama.integrate_scanpy: every group is aligned on its
\* smallest feature value; the output of a group has one row per row of the
\* group, in the group's order
IntegrateScanpy(X, groups) ==
    [g \in DOMAIN groups |->
        LET base == SetMin({X[groups[g][j]] : j \in DOMAIN groups[g]})
        IN  [j \in DOMAIN groups[g] |-> X[groups[g][j]] - base]]

\* anndata.concat(_adatas): groups stacked in list order, names kept
Concat(names, groups, outs) ==
    [obs_names |-> Flatten([g \in DOMAIN groups |->
                               [j \in DOMAIN groups[g] |-> names[groups[g][j]]]]),
     rows |-> Flatten(outs)]

\* tmp_adata[adata.obs_names].obsm["X_scanorama"]: rows looked up by name
\* (observation names are unique)
ReindexConcatOrder(tmp, names) == tmp.rows

Reindex(tmp, names) ==
    [i \in DOMAIN names |-> tmp.rows[IndexOf(tmp.obs_names, names[i])]]

IntegratedRows(ad, a) ==
    LET groups == Partition(ad.obs[a.batch_key])
    IN  Reindex(Concat(ad.obs_names, groups, IntegrateScanpy(ad.X, groups)),
                ad.obs_names)

\* adata.obsm["X_scanorama"] = ...
StoreRepDropOthers(obsm, rep) == Put(EmptyMap, "X_scanorama", rep)

StoreRep(obsm, rep) == Put(obsm, "X_scanorama", rep)

Call(op, i, key, err, knn) ==
    [op |-> op, adapter |-> i, result_key |-> key, error |-> err, knn |-> knn]

NoKnn == [n_neighbors |-> 0, weights |-> "none"]

ComputeIntegration(i) ==
    LET a == adapters[i] IN
    /\ IF a.batch_key \notin DOMAIN adata.obs
       THEN /\ last' = Call("compute_integration", i, "", "KeyError", NoKnn)
            /\ UNCHANGED adata
       ELSE /\ adata' = [adata EXCEPT !.obsm =
                    StoreRep(@, [ncols |-> heap[a.method_dict].dimred,
                                 rows |-> IntegratedRows(adata, a)])]
            /\ last' = Call("compute_integration", i, "", "none", NoKnn)
    /\ UNCHANGED <<settings, heap, adapters>>

(***************************************************************************)
(* Stand-in for the nearest-neighbour classifier (fit, predict,            *)
(* predict_proba): vote of the n_neighbors nearest fitted rows, uniform or *)
(* weighted by inverse distance; ties between rows go to the row fitted    *)
(* first, ties between classes to the smallest class code.  A probability  *)
(* is the pair <<numerator, denominator>>.                                 *)
(***************************************************************************)
Closer(m, q, s, t) ==
    \/ Abs(m.X[s] - q) < Abs(m.X[t] - q)
    \/ Abs(m.X[s] - q) = Abs(m.X[t] - q) /\ s <= t

RECURSIVE Nearest(_, _, _, _)
Nearest(m, q, cand, k) ==
    IF k = 0 \/ cand = {} THEN <<>>
    ELSE LET s == CHOOSE c \in cand : \A t \in cand : Closer(m, q, c, t)
         IN  <<s>> \o Nearest(m, q, cand \ {s}, k - 1)

KNeighbors(m, q) == Nearest(m, q, DOMAIN m.X, m.n_neighbors)

\* weight of every neighbour, scaled by a common factor so that 1/d is integral
NeighborWeights(m, q) ==
    LET nb == KNeighbors(m, q)
        d == [j \in DOMAIN nb |-> Abs(m.X[nb[j]] - q)]
        scale == Fact(SetMax(Range(d) \cup {1}))
    IN  [j \in DOMAIN nb |->
            IF m.weights = "uniform" THEN 1
            ELSE IF 0 \in Range(d) THEN (IF d[j] = 0 THEN 1 ELSE 0)
            ELSE scale \div d[j]]

\* classes_: the distinct fitted class codes
Classes(m) == Range(m.Y)

ClassVotes(m, q) ==
    LET nb == KNeighbors(m, q)
        w == NeighborWeights(m, q)
    IN  [c \in Classes(m) |->
            SumSeq([j \in DOMAIN nb |-> IF m.Y[nb[j]] = c THEN w[j] ELSE 0])]

KnnPredictOne(m, q) ==
    LET v == ClassVotes(m, q)
        top == SetMax(Range(v))
    IN  SetMin({c \in Classes(m) : v[c] = top})

KnnPredict(m, rows) == [i \in DOMAIN rows |-> KnnPredictOne(m, rows[i])]

\* predict_proba: one row of class probabilities per query row
KnnPredictProba(m, rows) ==
    [i \in DOMAIN rows |->
        LET v == ClassVotes(m, rows[i])
            total == SumSeq([j \in DOMAIN NeighborWeights(m, rows[i]) |->
                                NeighborWeights(m, rows[i])[j]])
        IN  [c \in Classes(m) |-> <<v[c], total>>]]

\* np.max(proba, axis=1): all entries of a row share their denominator
MaxProbaUnnormalised(proba) ==
    [i \in DOMAIN proba |->
        <<SetMax({proba[i][c][1] : c \in DOMAIN proba[i]}), 1>>]

MaxProba(proba) ==
    [i \in DOMAIN proba |->
        <<SetMax({proba[i][c][1] : c \in DOMAIN proba[i]}),
          proba[i][CHOOSE c \in DOMAIN proba[i] : TRUE][2]>>]

(***************************************************************************)
(* predict                                                                 *)
(***************************************************************************)
\* rows selected by the boolean column ref_idx, in container order
TrainRows(ref) == SelectSeq(RowPositions(Len(ref.values)), LAMBDA i : ref.values[i])

\* lines 79-91: the classifier that is built, by code path
ClassifierFor(cuml, cd) ==
    IF cuml
    THEN [n_neighbors |-> cd.n_neighbors, weights |-> "uniform"]
    ELSE [n_neighbors |-> cd.n_neighbors, weights |-> cd.weights]

\* knn.fit(train_X, train_Y)
KnnFit(ad, a, knn) ==
    LET rows == TrainRows(ad.obs["_labelled_train_indices"])
        codes == CatCodes(ad.obs[a.labels_key])
    IN  [X |-> [j \in DOMAIN rows |-> ad.obsm["X_scanorama"].rows[rows[j]]],
         Y |-> [j \in DOMAIN rows |-> codes[rows[j]]],
         n_neighbors |-> knn.n_neighbors,
         weights |-> knn.weights]

\* the first exception raised by lines 75-94, "none" when they complete.
\* The classifier library rejects an empty training set at fit and a
\* n_neighbors larger than the number of fitted rows at predict.
PredictErrorEmptyFirst(ad, a, knn) ==
    IF "_labelled_train_indices" \notin DOMAIN ad.obs THEN "KeyError"
    ELSE IF TrainRows(ad.obs["_labelled_train_indices"]) = <<>> THEN "ValueError"
    ELSE IF "X_scanorama" \notin DOMAIN ad.obsm THEN "KeyError"
    ELSE IF a.labels_key \notin DOMAIN ad.obs THEN "KeyError"
    ELSE IF ad.obs[a.labels_key].dtype # "category" THEN "AttributeError"
    ELSE IF knn.n_neighbors > Len(TrainRows(ad.obs["_labelled_train_indices"]))
         THEN "ValueError"
    ELSE "none"

PredictError(ad, a, knn) ==
    IF "_labelled_train_indices" \notin DOMAIN ad.obs THEN "KeyError"
    ELSE IF "X_scanorama" \notin DOMAIN ad.obsm THEN "KeyError"
    ELSE IF a.labels_key \notin DOMAIN ad.obs THEN "KeyError"
    ELSE IF ad.obs[a.labels_key].dtype # "category" THEN "AttributeError"
    ELSE IF TrainRows(ad.obs["_labelled_train_indices"]) = <<>> THEN "ValueError"
    ELSE IF knn.n_neighbors > Len(TrainRows(ad.obs["_labelled_train_indices"]))
         THEN "ValueError"
    ELSE "none"

\* line 97: adata.obs[self.result_key] = categories[knn_pred]
SaveResultsRecodeLabels(obs, a, pred) ==
    LET named == TakeCategories(obs[a.labels_key].categories, pred)
    IN  Put(Put(obs, a.result_key, ObjectColumn(named)),
            a.labels_key, CategoryColumn(obs[a.labels_key].categories, named))

SaveResultsUnlabelledOnly(obs, a, pred) ==
    LET named == TakeCategories(obs[a.labels_key].categories, pred)
        ref == obs["_labelled_train_indices"].values
    IN  Put(obs, a.result_key,
            ObjectColumn([i \in DOMAIN named |-> IF ref[i] THEN "NaN" ELSE named[i]]))

SaveResults(obs, a, pred) ==
    Put(obs, a.result_key,
        ObjectColumn(TakeCategories(obs[a.labels_key].categories, pred)))

\* lines 99-102
ReturnProbabilities(uns) == uns["_return_probabilities"]

SaveProbabilities(obs, a, proba) ==
    Put(obs, a.result_key \o "_probabilities", FloatColumn(MaxProba(proba)))

Predict(i, result_key) ==
    LET a == adapters[i]
        knn == ClassifierFor(settings.cuml, heap[a.classifier_dict])
        err == PredictError(adata, a, knn)
        m == KnnFit(adata, a, knn)
        rep == adata.obsm["X_scanorama"].rows
        obs1 == SaveResults(adata.obs, a, KnnPredict(m, rep))
        obs2 == IF ReturnProbabilities(adata.uns)
                THEN SaveProbabilities(obs1, a, KnnPredictProba(m, rep))
                ELSE obs1
    IN
    /\ IF err # "none"
       THEN /\ last' = Call("predict", i, result_key, err, NoKnn)
            /\ UNCHANGED adata
       ELSE /\ adata' = [adata EXCEPT !.obs = obs2]
            /\ last' = Call("predict", i, result_key, "none", knn)
    /\ UNCHANGED <<settings, heap, adapters>>

(***************************************************************************)
(* compute_embedding                                                       *)
(***************************************************************************)
ComputeEmbeddingFlagIgnored(uns) == TRUE

ComputeEmbeddingFlag(uns) == uns["_compute_embedding"]

NeighborsMethod(cuml) == IF cuml THEN "rapids" ELSE "umap"

\* stand-in for sc.tl.umap(...).obsm["X_umap"]: two columns per row
Umap(rep, kwargs) == [ncols |-> 2, rows |-> [i \in DOMAIN rep.rows |-> <<rep.rows[i], i>>]]

ComputeEmbedding(i) ==
    LET a == adapters[i]
        method == NeighborsMethod(settings.cuml)
    IN
    /\ IF ~ComputeEmbeddingFlag(adata.uns)
       THEN /\ last' = Call("compute_embedding", i, "", "none", NoKnn)
            /\ UNCHANGED adata
       ELSE IF "X_scanorama" \notin DOMAIN adata.obsm
       THEN /\ last' = Call("compute_embedding", i, "", "ValueError", NoKnn)
            /\ UNCHANGED adata
       ELSE /\ adata' =
                [adata EXCEPT
                    !.uns = Put(@, "neighbors", [use_rep |-> "X_scanorama", method |-> method]),
                    !.obsp = @ \cup {"distances", "connectivities"},
                    !.obsm = Put(@, a.embedding_key,
                                 Umap(adata.obsm["X_scanorama"], heap[a.embedding_dict]))]
            /\ last' = Call("compute_embedding", i, "", "none", NoKnn)
    /\ UNCHANGED <<settings, heap, adapters>>

(***************************************************************************)
(* The caller: the dictionaries it owns, the constructor calls it makes,   *)
(* the result_key arguments it passes to predict                           *)
(***************************************************************************)
CallerHeap ==
    Put(Put(Put(Put(Put(Put(Put(EmptyMap,
        DefaultArgs.method_dict, EmptyMap),
        DefaultArgs.classifier_dict, EmptyMap),
        DefaultArgs.embedding_dict, EmptyMap),
        "m1", [dimred |-> 20]),
        "c1", [n_neighbors |-> 1]),
        "c2", [n_neighbors |-> 2, weights |-> "distance"]),
        "e1", [min_dist |-> "0.5"])

NoArgs ==
    [batch_key |-> DefaultBatchKey, labels_key |-> DefaultLabelsKey,
     result_key |-> DefaultResultKey, embedding_key |-> DefaultEmbeddingKey,
     method_dict |-> DefaultArgs.method_dict,
     classifier_dict |-> DefaultArgs.classifier_dict,
     embedding_dict |-> DefaultArgs.embedding_dict]

ConstructorCalls ==
    << NoArgs,
       [NoArgs EXCEPT !.result_key = "fine", !.embedding_key = "X_umap_fine",
                      !.method_dict = "m1", !.classifier_dict = "c1",
                      !.embedding_dict = "e1"],
       [NoArgs EXCEPT !.classifier_dict = "c2"],
       [NoArgs EXCEPT !.classifier_dict = "c1", !.result_key = DefaultLabelsKey],
       [NoArgs EXCEPT !.classifier_dict = "c1", !.result_key = "fine",
                      !.labels_key = "fine_probabilities"] >>

\* the calls that use the default key layout
PlainCalls == {ConstructorCalls[1], ConstructorCalls[2], ConstructorCalls[3]}

PredictKeys == {DefaultResultKey, "second_prediction"}

Construct(args) ==
    /\ Len(adapters) < MaxAdapters
    /\ adapters' = Append(adapters, NewAdapter(heap, Len(adapters) + 1, args))
    /\ heap' = HeapAfterInit(heap, Len(adapters) + 1, args)
    /\ last' = Call("__init__", Len(adapters) + 1, "", "none", NoKnn)
    /\ UNCHANGED <<adata, settings>>

(***************************************************************************)
(* Initial containers: the state the data-loading step hands over          *)
(***************************************************************************)
Features == [i \in Obs |-> (3 * i) % 4]

Container(batch, labels, train, retProba, embed) ==
    [obs_names |-> [i \in Obs |-> CellName(i)],
     X |-> Features,
     obs |-> Put(Put(Put(EmptyMap,
                DefaultBatchKey, CategoryColumn(UniqueBatches([values |-> batch]), batch)),
                DefaultLabelsKey, CategoryColumn(LabelCategories, labels)),
                "_labelled_train_indices", BoolColumn(train)),
     obsm |-> EmptyMap,
     uns |-> Put(Put(EmptyMap, "_return_probabilities", retProba),
                 "_compute_embedding", embed),
     obsp |-> {}]

\* the layouts used when the other columns vary
AlternatingBatches == [i \in Obs |-> BatchOrder[1 + (i % 2)]]

AlternatingLabels == [i \in Obs |-> LabelCategories[1 + (i % 2)]]

AllButLastLabelled == [i \in Obs |-> i # NumObs]

\* every batch layout under one labelling, and every labelling and training
\* subset under the alternating batch layout
InitialColumns ==
    {<<batch, AlternatingLabels, AllButLastLabelled>> :
        batch \in [Obs -> Range(BatchOrder)]}
    \cup
    {<<AlternatingBatches, labels, train>> :
        labels \in [Obs -> Range(LabelCategories)], train \in [Obs -> BOOLEAN]}

Init ==
    /\ \E cols \in InitialColumns, retProba \in BOOLEAN, embed \in BOOLEAN :
            adata = Container(cols[1], cols[2], cols[3], retProba, embed)
    /\ settings \in [cuml : BOOLEAN]
    /\ \E args \in PlainCalls :
          /\ adapters = <<NewAdapter(CallerHeap, 1, args)>>
          /\ heap = HeapAfterInit(CallerHeap, 1, args)
    /\ last = Call("__init__", 1, "", "none", NoKnn)

Next ==
    \/ \E i \in DOMAIN adapters : ComputeIntegration(i)
    \/ \E i \in DOMAIN adapters : \E k \in PredictKeys : Predict(i, k)
    \/ \E i \in DOMAIN adapters : ComputeEmbedding(i)

Spec == Init /\ [][Next]_vars

\* one container, every constructor call, several adapters on the container
InitConfig ==
    /\ \E retProba \in BOOLEAN :
         LET c == Container(AlternatingBatches, AlternatingLabels,
                            AllButLastLabelled, retProba, TRUE)
         IN  adata = [c EXCEPT !.obs = Put(@, "fine_probabilities",
                                CategoryColumn(LabelCategories, AlternatingLabels))]
    /\ settings = [cuml |-> FALSE]
    /\ adapters = <<>>
    /\ heap = CallerHeap
    /\ last = Call("start", 0, "", "none", NoKnn)

NextConfig ==
    \/ \E n \in DOMAIN ConstructorCalls : Construct(ConstructorCalls[n])
    \/ Next

SpecConfig == InitConfig /\ [][NextConfig]_vars

(***************************************************************************)
(* Properties                                                              *)
(***************************************************************************)
ProbabilityKey(a) == a.result_key \o "_probabilities"

PredictStep == last'.op = "predict"

PredictDone == last.op = "predict" /\ last.error = "none"

\* C1: two successive predict calls on one adapter with different result_key
\* arguments k1 and k2 leave a column under k1 and a column under k2, and the
\* second call does not change the column under k1.
C1_TwoKeysTwoColumns ==
    [][(/\ PredictDone
        /\ PredictStep /\ last'.error = "none"
        /\ last'.adapter = last.adapter
        /\ last'.result_key # last.result_key)
       => /\ last.result_key \in DOMAIN adata'.obs
          /\ last'.result_key \in DOMAIN adata'.obs
          /\ adata'.obs[last.result_key] = adata.obs[last.result_key]]_vars

\* C2 as stated: predict leaves the column named by labels_key unchanged,
\* for every adapter configuration.
C2_LabelsNeverModified ==
    [][PredictStep =>
        LET a == adapters[last'.adapter]
        IN  adata'.obs[a.labels_key] = adata.obs[a.labels_key]]_vars

\* C2 amended: predict changes or creates no observation column other than
\* the one named by the adapter's result_key and, when _return_probabilities
\* is set, the one named result_key + "_probabilities"; so the label column
\* is unchanged whenever labels_key is neither of these two names.
C2_OnlyResultColumnsWritten ==
    [][PredictStep =>
        LET a == adapters[last'.adapter]
            written == {a.result_key} \cup
                       (IF adata.uns["_return_probabilities"]
                        THEN {ProbabilityKey(a)} ELSE {})
        IN  /\ \A k \in DOMAIN adata'.obs \ written :
                  k \in DOMAIN adata.obs /\ adata'.obs[k] = adata.obs[k]
            /\ DOMAIN adata.obs \subseteq DOMAIN adata'.obs
            /\ a.labels_key \notin {a.result_key, ProbabilityKey(a)}
                  => adata'.obs[a.labels_key] = adata.obs[a.labels_key]]_vars

C2_Witness ==
    /\ PredictDone
    /\ LET a == adapters[last.adapter]
       IN  /\ a.labels_key \notin {a.result_key, ProbabilityKey(a)}
           /\ {a.result_key, ProbabilityKey(a)} \subseteq DOMAIN adata.obs
           /\ adata.obs[a.labels_key].dtype = "category"
           /\ adata.obs[a.result_key].values # adata.obs[a.labels_key].values

IsProbability(p) == p[2] > 0 /\ 0 <= p[1] /\ p[1] <= p[2]

\* C3: while _return_probabilities is false no probability column exists;
\* when it is true, a completed predict leaves under result_key +
\* "_probabilities" a float column with one value per observation, each in
\* [0, 1] and at least 1 / (number of categories), as the largest of class
\* probabilities that sum to one must be.
C3_ProbabilityColumn ==
    \A n \in DOMAIN adapters :
        LET a == adapters[n]
            pk == ProbabilityKey(a)
        IN  IF ~adata.uns["_return_probabilities"]
            THEN pk \notin DOMAIN adata.obs
            ELSE (PredictDone /\ last.adapter = n) =>
                    /\ pk \in DOMAIN adata.obs
                    /\ adata.obs[pk].dtype = "float"
                    /\ DOMAIN adata.obs[pk].values = Obs
                    /\ \A i \in Obs :
                          LET p == adata.obs[pk].values[i]
                          IN  /\ IsProbability(p)
                              /\ p[1] * Len(LabelCategories) >= p[2]

C3_Witness ==
    /\ PredictDone
    /\ adata.uns["_return_probabilities"]
    /\ LET col == adata.obs[ProbabilityKey(adapters[last.adapter])].values
       IN  /\ \E i \in Obs : col[i][1] < col[i][2]
           /\ \E i \in Obs : col[i][1] = col[i][2]

\* C4: after a completed predict the result column has one entry per
\* observation, labelled training observations included, and every entry is
\* one of the label column's categories (so none is null).
C4_ResultColumnComplete ==
    PredictDone =>
        LET a == adapters[last.adapter]
        IN  /\ "X_scanorama" \in DOMAIN adata.obsm
            /\ a.result_key \in DOMAIN adata.obs
            /\ DOMAIN adata.obs[a.result_key].values = Obs
            /\ \A i \in Obs :
                  adata.obs[a.result_key].values[i]
                      \in Range(adata.obs[a.labels_key].categories)

C4_Witness ==
    /\ PredictDone
    /\ LET ref == adata.obs["_labelled_train_indices"].values
           res == adata.obs[adapters[last.adapter].result_key].values
       IN  /\ \E i \in Obs : ref[i]
           /\ \E i \in Obs : ~ref[i]
           /\ \E i, j \in Obs : res[i] # res[j]

\* C5: the stored representation has one row per observation, and row i is
\* the corrected output of observation i (its feature aligned on the smallest
\* feature of its own batch), whatever the interleaving of the batches.
C5_RowsInObservationOrder ==
    "X_scanorama" \in DOMAIN adata.obsm =>
        LET rows == adata.obsm["X_scanorama"].rows
            batch == adata.obs[DefaultBatchKey].values
        IN  /\ DOMAIN rows = Obs
            /\ \A i \in Obs :
                  \E j \in Obs :
                     /\ batch[j] = batch[i]
                     /\ rows[i] = adata.X[i] - adata.X[j]
                     /\ \A k \in Obs : batch[k] = batch[i] => adata.X[j] <= adata.X[k]

C5_Witness ==
    /\ last.op = "compute_integration" /\ last.error = "none"
    /\ LET rows == adata.obsm["X_scanorama"].rows
           batch == adata.obs[DefaultBatchKey].values
       IN  /\ batch[1] = "b" /\ batch[2] = "a" /\ batch[NumObs] = "b"
           /\ rows[1] # rows[2]

\* C6: compute_integration changes nothing of the container but the
\* representation entry X_scanorama: the observation columns, the flags and
\* the rest of uns, and every other representation entry stay as they were.
C6_IntegrationFrame ==
    [][last'.op = "compute_integration" =>
        /\ adata'.obs = adata.obs
        /\ adata'.uns = adata.uns
        /\ adata'.obsp = adata.obsp
        /\ adata'.X = adata.X
        /\ adata'.obs_names = adata.obs_names
        /\ DOMAIN adata'.obsm = DOMAIN adata.obsm \cup {"X_scanorama"}
        /\ \A k \in DOMAIN adata.obsm \ {"X_scanorama"} :
              adata'.obsm[k] = adata.obsm[k]]_vars

C6_Witness ==
    /\ last.op = "compute_integration" /\ last.error = "none"
    /\ adapters[last.adapter].embedding_key \in DOMAIN adata.obsm
    /\ adapters[last.adapter].result_key \in DOMAIN adata.obs

\* C7: with _compute_embedding false, compute_embedding leaves the whole
\* container as it was and raises nothing, also before any integration.
C7_EmbeddingNoOp ==
    [][(last'.op = "compute_embedding" /\ ~adata.uns["_compute_embedding"])
       => adata' = adata /\ last'.error = "none"]_vars

C7_Witness ==
    /\ last.op = "compute_embedding" /\ last.error = "none"
    /\ ~adata.uns["_compute_embedding"]
    /\ "X_scanorama" \notin DOMAIN adata.obsm

MergedOver(dict, defaults, given) ==
    /\ DOMAIN dict = DOMAIN defaults \cup DOMAIN given
    /\ \A k \in DOMAIN given : dict[k] = given[k]
    /\ \A k \in DOMAIN defaults \ DOMAIN given : dict[k] = defaults[k]

\* C8: every adapter's three dictionaries are the defaults overridden key
\* by key with the overrides passed to its constructor, its four keys are
\* the constructor's arguments, and the caller's dictionaries and the shared
\* default argument objects keep their contents, whatever is called.
C8_ConfigurationImmutable ==
    /\ \A id \in DOMAIN CallerHeap : heap[id] = CallerHeap[id]
    /\ \A n \in DOMAIN adapters :
          LET a == adapters[n]
          IN  /\ a.given.method_dict = CallerHeap[a.args.method_dict]
              /\ a.given.classifier_dict = CallerHeap[a.args.classifier_dict]
              /\ a.given.embedding_dict = CallerHeap[a.args.embedding_dict]
              /\ MergedOver(heap[a.method_dict], [dimred |-> 50], a.given.method_dict)
              /\ MergedOver(heap[a.classifier_dict],
                            [weights |-> "uniform", n_neighbors |-> 15],
                            a.given.classifier_dict)
              /\ MergedOver(heap[a.embedding_dict], [min_dist |-> "0.1"],
                            a.given.embedding_dict)
              /\ a.batch_key = a.args.batch_key
              /\ a.labels_key = a.args.labels_key
              /\ a.result_key = a.args.result_key
              /\ a.embedding_key = a.args.embedding_key

C8_Witness ==
    /\ Len(adapters) = 2
    /\ adapters[1].args.method_dict = "m1"
    /\ adapters[1].args.classifier_dict = "c1"
    /\ adapters[2].args = NoArgs
    /\ heap[adapters[1].method_dict].dimred = 20
    /\ heap[adapters[2].method_dict].dimred = 50
    /\ PredictDone /\ last.adapter = 1
    /\ adapters[1].embedding_key \in DOMAIN adata.obsm

\* C9: a predict called while the container holds no X_scanorama
\* representation ends in a lookup error and writes nothing.
C9_PredictNeedsIntegration ==
    [][(PredictStep /\ "X_scanorama" \notin DOMAIN adata.obsm)
       => last'.error = "KeyError" /\ adata' = adata]_vars

C9_Witness ==
    /\ last.op = "predict" /\ last.error = "KeyError"
    /\ "X_scanorama" \notin DOMAIN adata.obsm
    /\ adapters[last.adapter].result_key \notin DOMAIN adata.obs

\* C10: on the CPU path and on the GPU path alike, the classifier predict
\* fits carries the adapter's configured n_neighbors and weights.
C10_ClassifierConfigured ==
    PredictDone =>
        LET cd == heap[adapters[last.adapter].classifier_dict]
        IN  /\ last.knn.n_neighbors = cd.n_neighbors
            /\ last.knn.weights = cd.weights

====
